---- MODULE Spec2Model ----
(***************************************************************************)
(* Model of the lvory desktop shell: the window manager                    *)
(* (src/unnamed/part_000) and the preload bridge                           *)
(* (src/src/main/ipc-handlers.js, lines 13-131).                           *)
(*                                                                         *)
(* Spec        the window manager: createWindow, the IPC window controls,  *)
(*             the native 'close', 'will-resize', 'resize' and             *)
(*             'did-finish-load' handlers, and showWindow.                 *)
(* BridgeSpec  the preload bridge: the exposed functions, the listeners    *)
(*             they register on ipcRenderer and the events delivered.      *)
(*                                                                         *)
(* The BrowserWindow and ipcRenderer methods are Electron's; they are      *)
(* modelled by their documented effect on the window flags / the listener  *)
(* list, at the places the source calls them.                              *)
(***************************************************************************)
EXTENDS Integers, Sequences, FiniteSets

VARIABLES
    mainWindow,   \* part_000:16   the module's window reference and the window's state
    isQuitting,   \* part_000:167  global.isQuitting, set outside this module
    lastOp,       \* history: the operation that made the last step, with its inputs
    pre,          \* history: visible/minimized/maximized before the last step
    prevented,    \* history: the last event handler called event.preventDefault()
    threw,        \* history: the last operation raised an exception
    runLen,       \* history: length of the current run of handled 'window-maximize' messages
    runStartMax,  \* history: isMaximized() when the current run started
    listeners,    \* ipcRenderer's listeners, in registration order
    cancelled,    \* history: indices of listeners whose subscription the page has cancelled
    handles,      \* the unsubscribe closures the page holds
    lastSent,     \* the last message the bridge sent toward the main process
    lastInvoked   \* history: the callbacks the last delivered event invoked

winVars    == <<mainWindow, isQuitting, lastOp, pre, prevented, threw, runLen, runStartMax>>
bridgeVars == <<listeners, cancelled, handles, lastSent, lastInvoked>>
vars       == <<winVars, bridgeVars>>

(***************************************************************************)
(* Program constants and model bounds                                      *)
(***************************************************************************)
InitWidth  == 1080
InitHeight == 780
MinWidth   == 800
MinHeight  == 600

\* Sizes an event may carry: within SizeSlack of the minimum, or the initial size.
SizeSlack == 1
\* Consecutive 'window-maximize' messages followed before the run is restarted.
MaxRun == 2
\* Listeners registered on ipcRenderer at most.
MaxListeners == 1

Widths  == ((MinWidth - SizeSlack) .. (MinWidth + SizeSlack)) \cup {InitWidth}
Heights == ((MinHeight - SizeSlack) .. (MinHeight + SizeSlack)) \cup {InitHeight}

Max(a, b) == IF a >= b THEN a ELSE b

(***************************************************************************)
(* BrowserWindow methods (Electron), by their documented effect            *)
(***************************************************************************)
\* show(): shows and gives focus to the window.
show(w) == [w EXCEPT !.visible = TRUE, !.focused = TRUE]

\* hide(): hides the window.
hide(w) == [w EXCEPT !.visible = FALSE, !.focused = FALSE]

\* minimize(): minimizes the window.
minimize(w) == [w EXCEPT !.minimized = TRUE, !.focused = FALSE]

\* restore(): restores the window from minimized state.
restore(w) == [w EXCEPT !.minimized = FALSE]

\* focus(): focuses on the window.
focus(w) == [w EXCEPT !.focused = TRUE]

\* maximize(): maximizes the window; also shows (but does not focus) the
\* window if it isn't being displayed already.
maximize(w) == [w EXCEPT !.maximized = TRUE, !.visible = TRUE]

\* unmaximize(): unmaximizes the window.
unmaximize(w) == [w EXCEPT !.maximized = FALSE]

\* setSize(width, height)
setSize(w, width, height) == [w EXCEPT !.width = width, !.height = height]

\* mainWindow && !mainWindow.isDestroyed()
Alive(w) == w.exists /\ ~w.destroyed

\* new BrowserWindow({ width: 1080, height: 780, ..., show: false })
NewWindow ==
    [exists |-> TRUE, destroyed |-> FALSE, visible |-> FALSE, minimized |-> FALSE,
     maximized |-> FALSE, focused |-> FALSE, width |-> InitWidth, height |-> InitHeight]

\* let mainWindow = null  (the window fields are meaningless until exists)
NullWindow == [NewWindow EXCEPT !.exists = FALSE]

Op(name) == [op |-> name, w |-> 0, h |-> 0, quitting |-> isQuitting]
SizeOp(name, w, h) == [op |-> name, w |-> w, h |-> h, quitting |-> isQuitting]
Flags(w) == [visible |-> w.visible, minimized |-> w.minimized, maximized |-> w.maximized]

(***************************************************************************)
(* The window manager's handlers, as functions of the window               *)
(***************************************************************************)
\* ipcMain.on('window-minimize')
WindowMinimizeHandler(w) == IF Alive(w) THEN minimize(w) ELSE w

\* ipcMain.on('window-close'): hide rather than close
WindowCloseHandler(w) == IF Alive(w) THEN hide(w) ELSE w

\* Mutant of WindowMaximizeHandler: maximizes without testing isMaximized().
WindowMaximizeHandlerNoToggle(w) == IF Alive(w) THEN maximize(w) ELSE w

\* ipcMain.on('window-maximize')
WindowMaximizeHandler(w) ==
    IF Alive(w)
    THEN IF w.maximized THEN unmaximize(w) ELSE maximize(w)
    ELSE w

\* Mutant of CloseHandler: hides the window but forgets event.preventDefault().
CloseHandlerNoPrevent(w, quitting) == [win |-> hide(w), prevented |-> FALSE]

\* mainWindow.on('close'): the window after the handler, and whether it
\* called event.preventDefault()
CloseHandler(w, quitting) ==
    IF ~quitting
    THEN [win |-> hide(w), prevented |-> TRUE]
    ELSE [win |-> w, prevented |-> FALSE]

\* A close that no handler prevented destroys the window (Electron).
Destroy(w) == [w EXCEPT !.destroyed = TRUE, !.visible = FALSE, !.focused = FALSE]

\* mainWindow.on('will-resize'): TRUE when the handler calls event.preventDefault()
WillResizeHandler(width, height) == width < MinWidth \/ height < MinHeight

\* Mutant of ResizeHandler: corrects the size only when both dimensions are
\* too small (&& for ||).
ResizeHandlerBothSmall(w) ==
    IF w.width < MinWidth /\ w.height < MinHeight
    THEN setSize(w, Max(w.width, MinWidth), Max(w.height, MinHeight))
    ELSE w

\* mainWindow.on('resize')
ResizeHandler(w) ==
    IF w.width < MinWidth \/ w.height < MinHeight
    THEN setSize(w, Max(w.width, MinWidth), Max(w.height, MinHeight))
    ELSE w

\* webContents.on('did-finish-load'): show the window once the page is loaded
DidFinishLoadHandler(w) == IF ~w.visible THEN show(w) ELSE w

\* showWindow: the window after the call, and whether the call threw.  Every
\* method of a destroyed BrowserWindow throws ("Object has been destroyed"),
\* and showWindow tests only `if (mainWindow)`.
showWindow(w) ==
    IF ~w.exists THEN [win |-> w, threw |-> FALSE]
    ELSE IF w.destroyed THEN [win |-> w, threw |-> TRUE]
    ELSE LET w1 == IF ~w.visible THEN show(w) ELSE w
             w2 == IF w1.minimized THEN restore(w1) ELSE w1
         IN  [win |-> focus(w2), threw |-> FALSE]

(***************************************************************************)
(* Actions of the window manager                                           *)
(***************************************************************************)
\* Bookkeeping shared by every step that is not a handled 'window-maximize'.
Step(name, w, p, t) ==
    /\ mainWindow' = w
    /\ lastOp' = name
    /\ pre' = Flags(mainWindow)
    /\ prevented' = p
    /\ threw' = t
    /\ runLen' = 0
    /\ runStartMax' = w.maximized
    /\ UNCHANGED bridgeVars

\* createWindow(): called once at start-up; it also registers the handlers below.
CreateWindow ==
    /\ ~mainWindow.exists
    /\ Step(Op("createWindow"), NewWindow, FALSE, FALSE)
    /\ UNCHANGED isQuitting

IpcWindowMinimize ==
    /\ mainWindow.exists
    /\ Step(Op("window-minimize"), WindowMinimizeHandler(mainWindow), FALSE, FALSE)
    /\ UNCHANGED isQuitting

IpcWindowClose ==
    /\ mainWindow.exists
    /\ Step(Op("window-close"), WindowCloseHandler(mainWindow), FALSE, FALSE)
    /\ UNCHANGED isQuitting

IpcWindowMaximize ==
    /\ mainWindow.exists
    /\ mainWindow' = WindowMaximizeHandler(mainWindow)
    /\ lastOp' = Op("window-maximize")
    /\ pre' = Flags(mainWindow)
    /\ prevented' = FALSE
    /\ threw' = FALSE
    /\ IF Alive(mainWindow) /\ runLen > 0 /\ runLen < MaxRun
       THEN runLen' = runLen + 1 /\ UNCHANGED runStartMax
       ELSE /\ runLen' = IF Alive(mainWindow) THEN 1 ELSE 0
            /\ runStartMax' = mainWindow.maximized
    /\ UNCHANGED <<isQuitting, bridgeVars>>

\* The window's native 'close' event (the title bar, the OS, app.quit()).
NativeClose ==
    /\ Alive(mainWindow)
    /\ LET r == CloseHandler(mainWindow, isQuitting)
       IN  Step(Op("close"), IF r.prevented THEN r.win ELSE Destroy(r.win),
                r.prevented, FALSE)
    /\ UNCHANGED isQuitting

\* The user drags the window's edge to width x height: 'will-resize', and,
\* unless prevented, the new size and the 'resize' event.
WillResize(width, height) ==
    /\ Alive(mainWindow)
    /\ LET p == WillResizeHandler(width, height)
       IN  Step(SizeOp("will-resize", width, height),
                IF p THEN mainWindow
                ELSE ResizeHandler(setSize(mainWindow, width, height)),
                p, FALSE)
    /\ UNCHANGED isQuitting

\* The window's size changed to width x height without a 'will-resize' (the
\* platform, the display, maximize/unmaximize): the 'resize' event.
ResizeEvent(width, height) ==
    /\ Alive(mainWindow)
    /\ Step(SizeOp("resize", width, height),
            ResizeHandler(setSize(mainWindow, width, height)), FALSE, FALSE)
    /\ UNCHANGED isQuitting

DidFinishLoad ==
    /\ Alive(mainWindow)
    /\ Step(Op("did-finish-load"), DidFinishLoadHandler(mainWindow), FALSE, FALSE)
    /\ UNCHANGED isQuitting

\* showWindow() is exported: it may be called at any time.
ShowWindow ==
    /\ LET r == showWindow(mainWindow)
       IN  Step(Op("showWindow"), r.win, FALSE, r.threw)
    /\ UNCHANGED isQuitting

\* global.isQuitting is written outside this module.
SetQuitting(b) ==
    /\ isQuitting # b
    /\ isQuitting' = b
    /\ Step([Op("set-quitting") EXCEPT !.quitting = b], mainWindow, FALSE, FALSE)

WinInit ==
    /\ mainWindow = NullWindow
    /\ isQuitting = FALSE
    /\ lastOp = [op |-> "init", w |-> 0, h |-> 0, quitting |-> FALSE]
    /\ pre = Flags(NullWindow)
    /\ prevented = FALSE
    /\ threw = FALSE
    /\ runLen = 0
    /\ runStartMax = FALSE

BridgeInit ==
    /\ listeners = <<>>
    /\ cancelled = {}
    /\ handles = {}
    /\ lastSent = [api |-> "none", kind |-> "none", channel |-> "none",
                   shape |-> "none", value |-> "none"]
    /\ lastInvoked = <<>>

Init == WinInit /\ BridgeInit

Next ==
    \/ CreateWindow
    \/ IpcWindowMinimize
    \/ IpcWindowClose
    \/ IpcWindowMaximize
    \/ NativeClose
    \/ \E width \in Widths, height \in Heights : WillResize(width, height)
    \/ \E width \in Widths, height \in Heights : ResizeEvent(width, height)
    \/ DidFinishLoad
    \/ ShowWindow
    \/ \E b \in BOOLEAN : SetQuitting(b)

Spec == Init /\ [][Next]_vars

(***************************************************************************)
(* Claims about the window manager (checked under Spec)                    *)
(***************************************************************************)
\* C1: while global.isQuitting is false no step destroys the window; a
\* 'window-close' message or a native 'close' event arriving then leaves the
\* window hidden and not destroyed, the native close being prevented; the
\* window is destroyed only by a native close that finds isQuitting true.
C1_CloseHidesWhileNotQuitting ==
    [][ /\ (~isQuitting => mainWindow'.destroyed = mainWindow.destroyed)
        /\ (/\ lastOp'.op \in {"window-close", "close"}
            /\ ~isQuitting
            /\ Alive(mainWindow)
            => /\ ~mainWindow'.visible
               /\ ~mainWindow'.destroyed
               /\ (lastOp'.op = "close" => prevented'))
        /\ (mainWindow'.destroyed /\ ~mainWindow.destroyed
            => isQuitting /\ lastOp'.op = "close" /\ ~prevented')
      ]_vars

\* C1 witness: a native close arrived at a visible window while not quitting,
\* was prevented, and left the window hidden and alive.
C1_Witness ==
    /\ lastOp.op = "close"
    /\ ~lastOp.quitting
    /\ pre.visible
    /\ prevented
    /\ ~mainWindow.visible
    /\ Alive(mainWindow)

\* C4 (the claim as stated): after showWindow() the call has completed
\* without error; if a window was ever created it is visible, not minimized
\* and focused; if none was created nothing has changed.
C4_ShowWindowDisplays ==
    lastOp.op = "showWindow"
    => /\ ~threw
       /\ (mainWindow.exists
           => mainWindow.visible /\ ~mainWindow.minimized /\ mainWindow.focused)
       /\ (~mainWindow.exists => mainWindow = NullWindow)

\* C5: the window is never smaller than 800 x 600; a 'will-resize' is
\* prevented exactly when its bounds are narrower than 800 or lower than 600
\* and otherwise takes effect; a 'resize' leaves each dimension at the
\* maximum of the value it found and the minimum, so a dimension that
\* already satisfied the minimum is unchanged.
C5_MinimumSize ==
    /\ (mainWindow.exists
        => mainWindow.width >= MinWidth /\ mainWindow.height >= MinHeight)
    /\ (lastOp.op = "will-resize"
        => /\ prevented <=> (lastOp.w < MinWidth \/ lastOp.h < MinHeight)
           /\ (~prevented
               => mainWindow.width = lastOp.w /\ mainWindow.height = lastOp.h))
    /\ (lastOp.op = "resize"
        => /\ (lastOp.w >= MinWidth => mainWindow.width = lastOp.w)
           /\ (lastOp.w < MinWidth => mainWindow.width = MinWidth)
           /\ (lastOp.h >= MinHeight => mainWindow.height = lastOp.h)
           /\ (lastOp.h < MinHeight => mainWindow.height = MinHeight))

\* C5 witness: a 'resize' found a width below the minimum and a height above
\* it, raised the width to the minimum and kept the height.
C5_Witness ==
    /\ lastOp.op = "resize"
    /\ lastOp.w < MinWidth
    /\ lastOp.h > MinHeight
    /\ mainWindow.width = MinWidth
    /\ mainWindow.height = lastOp.h

\* The part of C6 that both the claim and its amendment state: a handled
\* 'window-maximize' inverts isMaximized(), and after an even number of
\* consecutive messages isMaximized() is what it was before the first.
MaximizeToggles ==
    /\ mainWindow.maximized = ~pre.maximized
    /\ (runLen > 0 /\ runLen % 2 = 0 => mainWindow.maximized = runStartMax)

PageArgs == {"config.json", "quit-app"}

\* The callbacks the page subscribes with.
Callbacks == {"cb1", "cb2"}

Entry(api, kind, channel, shape) ==
    [api |-> api, kind |-> kind, channel |-> channel, shape |-> shape]

\* The exposed functions that send or invoke: the ipcRenderer method, the
\* channel literal, and what becomes of the argument ("none": no argument is
\* forwarded, "raw": forwarded as is, "configPath": wrapped as { configPath }).
ApiTable ==
    { Entry("minimizeWindow", "send", "window-minimize", "none"),
      Entry("maximizeWindow", "send", "window-maximize", "none"),
      Entry("closeWindow", "send", "window-close", "none"),
      Entry("showWindow", "invoke", "show-window", "none"),
      Entry("quitApp", "invoke", "quit-app", "none"),
      Entry("downloadProfile", "invoke", "download-profile", "raw"),
      Entry("downloadCore", "invoke", "download-core", "none"),
      Entry("openConfigDir", "invoke", "openConfigDir", "none"),
      Entry("singbox.checkInstalled", "invoke", "singbox-check-installed", "none"),
      Entry("singbox.getVersion", "invoke", "singbox-get-version", "none"),
      Entry("singbox.checkConfig", "invoke", "singbox-check-config", "configPath"),
      Entry("singbox.formatConfig", "invoke", "singbox-format-config", "configPath"),
      Entry("singbox.startCore", "invoke", "singbox-start-core", "raw"),
      Entry("singbox.stopCore", "invoke", "singbox-stop-core", "none"),
      Entry("singbox.getStatus", "invoke", "singbox-get-status", "none"),
      Entry("singbox.run", "invoke", "singbox-run", "configPath"),
      Entry("singbox.stop", "invoke", "singbox-stop", "none"),
      Entry("singbox.downloadCore", "invoke", "singbox-download-core", "none"),
      Entry("getSingBoxVersion", "invoke", "singbox-get-version", "none"),
      Entry("getProfileData", "invoke", "get-profile-data", "none"),
      Entry("getProfileFiles", "invoke", "getProfileFiles", "none"),
      Entry("exportProfile", "invoke", "exportProfile", "raw"),
      Entry("renameProfile", "invoke", "renameProfile", "raw"),
      Entry("deleteProfile", "invoke", "deleteProfile", "raw"),
      Entry("openFileInEditor", "invoke", "openFileInEditor", "raw"),
      Entry("openAddProfileDialog", "send", "open-add-profile-dialog", "none"),
      Entry("getConfigPath", "invoke", "get-config-path", "none"),
      Entry("setConfigPath", "invoke", "set-config-path", "raw"),
      Entry("logs.getLogHistory", "invoke", "get-log-history", "none"),
      Entry("logs.clearLogs", "invoke", "clear-logs", "none") }

Sub(api, channel, unsub, remove, listen, unlisten) ==
    [api |-> api, channel |-> channel, unsub |-> unsub, remove |-> remove,
     listen |-> listen, unlisten |-> unlisten]

\* The exposed functions that subscribe: the channel literal listened on,
\* whether an unsubscribe closure is returned, the exposed function that
\* removes instead ("none" if there is none), and the channels on which the
\* main process is told of the subscription and of its end ("none" if not).
SubTable ==
    { Sub("onCoreDownloadProgress", "core-download-progress", TRUE, "none", "none", "none"),
      Sub("onStatusUpdate", "status-update", TRUE, "none", "none", "none"),
      Sub("singbox.onOutput", "singbox-output", TRUE, "none", "none", "none"),
      Sub("singbox.onExit", "singbox-exit", TRUE, "none", "none", "none"),
      Sub("onCoreVersionUpdate", "core-version-update", TRUE, "none", "none", "none"),
      Sub("onDownloadComplete", "download-complete", FALSE, "removeDownloadComplete",
          "none", "none"),
      Sub("onProfileData", "profile-data", FALSE, "removeProfileData", "none", "none"),
      Sub("onProfilesChanged", "profiles-changed", TRUE, "none",
          "profiles-changed-listen", "profiles-changed-unlisten"),
      Sub("logs.onLogMessage", "log-message", TRUE, "none", "none", "none"),
      Sub("logs.onActivityLog", "activity-log", TRUE, "none", "none", "none") }

\* Mutant of Message: a function that forwards its argument uses it as the
\* channel name.
MessageOnArgChannel(e, arg) ==
    [api |-> e.api, kind |-> e.kind,
     channel |-> IF e.shape = "raw" THEN arg ELSE e.channel,
     shape |-> e.shape, value |-> IF e.shape = "none" THEN "none" ELSE arg]

\* ipcRenderer.send(channel, ...) / ipcRenderer.invoke(channel, ...) as the
\* exposed function e writes it, called by the page with argument arg.
Message(e, arg) ==
    [api |-> e.api, kind |-> e.kind, channel |-> e.channel, shape |-> e.shape,
     value |-> IF e.shape = "none" THEN "none" ELSE arg]

\* ipcRenderer.send('profiles-changed-listen') and ...-unlisten
Notice(api, channel) ==
    [api |-> api, kind |-> "send", channel |-> channel, shape |-> "none",
     value |-> "none"]

\* The functions the bridge handles.  The page's callback and the arrow
\* function the bridge wraps around it are different function objects, and
\* each subscription creates a new arrow function.
PageFn(cb) == [kind |-> "callback", cb |-> cb, id |-> 0]
WrapperFn(cb, id) == [kind |-> "wrapper", cb |-> cb, id |-> id]

\* ipcRenderer.on(channel, fn): EventEmitter appends the listener.
on(ls, channel, fn) == Append(ls, [channel |-> channel, fn |-> fn])

Matches(ls, channel, fn) ==
    {i \in DOMAIN ls : ls[i].channel = channel /\ ls[i].fn = fn}

\* ipcRenderer.removeListener(channel, fn): EventEmitter removes the most
\* recently added listener that is fn itself, if there is one.
removeListener(ls, channel, fn) ==
    IF Matches(ls, channel, fn) = {} THEN ls
    ELSE LET k == CHOOSE i \in Matches(ls, channel, fn) :
                      \A j \in Matches(ls, channel, fn) : j <= i
         IN  [i \in 1 .. (Len(ls) - 1) |-> IF i < k THEN ls[i] ELSE ls[i + 1]]

\* The listeners of a channel, in the order an event calls them.
ListenersOn(ls, channel) == SelectSeq(ls, LAMBDA l : l.channel = channel)

\* The subscription (by id) a removal of cb on channel is meant to end: the
\* most recent one not yet cancelled.
Intended(channel, cb) ==
    {i \in DOMAIN listeners :
        /\ listeners[i].channel = channel
        /\ listeners[i].fn.cb = cb
        /\ listeners[i].fn.id \notin cancelled
        /\ \A j \in DOMAIN listeners :
              (/\ listeners[j].channel = channel
               /\ listeners[j].fn.cb = cb
               /\ listeners[j].fn.id \notin cancelled) => j <= i}

(***************************************************************************)
(* Actions of the bridge                                                   *)
(***************************************************************************)
\* The page calls a sending function with an argument.
CallApi(e, arg) ==
    /\ lastSent' = Message(e, arg)
    /\ lastInvoked' = <<>>
    /\ UNCHANGED <<listeners, cancelled, handles, winVars>>

\* The page calls a subscribing function with a callback.
Subscribe(s, cb) ==
    /\ Len(listeners) < MaxListeners
    /\ LET id == Len(listeners) + 1
       IN  /\ listeners' = on(listeners, s.channel, WrapperFn(cb, id))
           /\ handles' = IF s.unsub THEN handles \cup {id} ELSE handles
    /\ lastSent' = IF s.listen # "none" THEN Notice(s.api, s.listen) ELSE lastSent
    /\ lastInvoked' = <<>>
    /\ UNCHANGED <<cancelled, winVars>>

\* The page calls the unsubscribe closure that subscription id returned.
Unsubscribe(id) ==
    /\ id \in handles
    /\ \E s \in SubTable :
          /\ s.channel = listeners[id].channel
          /\ lastSent' = IF s.unlisten # "none" THEN Notice(s.api, s.unlisten)
                         ELSE lastSent
    /\ listeners' = removeListener(listeners, listeners[id].channel,
                                   PageFn(listeners[id].fn.cb))
    /\ cancelled' = cancelled \cup {id}
    /\ lastInvoked' = <<>>
    /\ UNCHANGED <<handles, winVars>>

\* The page calls removeDownloadComplete / removeProfileData with a callback.
Remove(s, cb) ==
    /\ s.remove # "none"
    /\ listeners' = removeListener(listeners, s.channel, PageFn(cb))
    /\ cancelled' = cancelled \cup {listeners[i].fn.id : i \in Intended(s.channel, cb)}
    /\ lastInvoked' = <<>>
    /\ UNCHANGED <<handles, lastSent, winVars>>

\* The main process sends an event on a channel: every listener of the
\* channel is called, and each wrapper calls its callback.
Emit(channel) ==
    /\ lastInvoked' = [i \in DOMAIN ListenersOn(listeners, channel) |->
                          ListenersOn(listeners, channel)[i]]
    /\ lastInvoked' # <<>>
    /\ UNCHANGED <<listeners, cancelled, handles, lastSent, winVars>>

BridgeNext ==
    \/ \E e \in ApiTable, arg \in PageArgs : CallApi(e, arg)
    \/ \E s \in SubTable, cb \in Callbacks : Subscribe(s, cb)
    \/ \E id \in 1 .. MaxListeners : Unsubscribe(id)
    \/ \E s \in SubTable, cb \in Callbacks : Remove(s, cb)
    \/ \E s \in SubTable : Emit(s.channel)

BridgeSpec == Init /\ [][BridgeNext]_vars

(***************************************************************************)
(* Claims about the bridge (checked under BridgeSpec)                      *)
(***************************************************************************)
\* The channel literals written in the bridge.
SendChannels ==
    {e.channel : e \in ApiTable}
        \cup (({s.listen : s \in SubTable} \cup {s.unlisten : s \in SubTable}) \ {"none"})
ListenChannels == {s.channel : s \in SubTable}

\* C2: every message the bridge sends or invokes, and every listener it
\* registers, is on a channel literal of the bridge, and the channel is the
\* one the called function names whatever argument the page passed: the
\* argument is forwarded as payload only.
C2_ChannelsAreLiterals ==
    /\ (lastSent.kind # "none"
        => /\ lastSent.channel \in SendChannels
           /\ \A e \in ApiTable :
                 e.api = lastSent.api
                 => lastSent.channel = e.channel /\ lastSent.kind = e.kind
           /\ \A s \in SubTable :
                 s.api = lastSent.api => lastSent.channel \in {s.listen, s.unlisten})
    /\ \A i \in DOMAIN listeners : listeners[i].channel \in ListenChannels

\* C2 witness: the page passed the name of another channel as the argument
\* of a function that forwards its argument, and it travelled as payload.
C2_Witness ==
    /\ lastSent.api = "downloadProfile"
    /\ lastSent.value = "quit-app"
    /\ lastSent.channel = "download-profile"
    /\ listeners # <<>>

\* C3 (the claim as stated): a subscription the page has cancelled, through
\* the returned unsubscribe function or the matching remove function, has no
\* listener left on its channel, and no event invokes its callback.
C3_UnsubscribeStopsDelivery ==
    /\ \A i \in DOMAIN listeners : listeners[i].fn.id \notin cancelled
    /\ \A i \in DOMAIN lastInvoked : lastInvoked[i].fn.id \notin cancelled

====
